---- MODULE Spec2Model ----
(***************************************************************************)
(* Model of python_modules/mediapipe_pose-dectection.py: the three host    *)
(* entry points python_init / python_main / python_finalize around the     *)
(* global estimator handle `pose`, and the standalone camera loop of the   *)
(* __main__ block.                                                         *)
(*                                                                         *)
(* Python values are represented as follows.                               *)
(*  - a dict is the sequence of its <<key, value>> pairs in insertion      *)
(*    order, a list is a sequence; the text json.dumps produces is         *)
(*    represented by that tree;                                            *)
(*  - a float is an integer token (the adapter never computes on floats);  *)
(*  - an estimator instance is a positive integer, None is 0;              *)
(*  - op is the entry point called last, frame its argument when that was  *)
(*    python_main, refinalized tells that a python_finalize call directly  *)
(*    followed another one; closeCalls counts the close() calls on each    *)
(*    estimator instance;                                                  *)
(*  - a video frame is [kind, shape]; kind "ndarray" is a NumPy array of   *)
(*    8-bit samples, every other kind is a value that is not an ndarray.   *)
(* The external collaborators (cv2.cvtColor, mediapipe Pose) are modelled  *)
(* by their outcomes: cvtColor either converts or raises cv2.error, the    *)
(* estimator reports no landmarks, reports the 33 pose landmarks, or       *)
(* raises one of its own exceptions.                                       *)
(***************************************************************************)
EXTENDS Integers, Sequences, FiniteSets, TLC

VARIABLES pose, nAlloc, closeCalls, op, refinalized, frame, invoked, lastEst,
          returned, ret_json, ret_status, raised,
          pc, cap, nFrames, initCalled, mainCalled, pending

vars == <<pose, nAlloc, closeCalls, op, refinalized, frame, invoked, lastEst,
          returned, ret_json, ret_status, raised,
          pc, cap, nFrames, initCalled, mainCalled, pending>>

hostVars == <<pc, cap, nFrames, pending, initCalled, mainCalled>>

(* ------------------------------ bounds --------------------------------- *)
MaxInstances == 2
MaxDim == 3
MaxNdim == 3
MaxSeed == 2
MaxFrames == 3

(* --------------------------- program constants ------------------------- *)
NumLandmarks == 33

None == 0

\* variant: a copy-paste slip gives id 8 the name of id 7
POSE_LANDMARKS_dup ==
    [i \in 0..32 |-> IF i = 8 THEN "Left Ear" ELSE "Joint"]

POSE_LANDMARKS ==
    (0 :> "Nose" @@ 1 :> "Left Eye (Inner)" @@ 2 :> "Left Eye" @@
     3 :> "Left Eye (Outer)" @@ 4 :> "Right Eye (Inner)" @@ 5 :> "Right Eye" @@
     6 :> "Right Eye (Outer)" @@ 7 :> "Left Ear" @@ 8 :> "Right Ear" @@
     9 :> "Mouth (Left)" @@ 10 :> "Mouth (Right)" @@ 11 :> "Left Shoulder" @@
     12 :> "Right Shoulder" @@ 13 :> "Left Elbow" @@ 14 :> "Right Elbow" @@
     15 :> "Left Wrist" @@ 16 :> "Right Wrist" @@ 17 :> "Left Pinky" @@
     18 :> "Right Pinky" @@ 19 :> "Left Index Finger" @@
     20 :> "Right Index Finger" @@ 21 :> "Left Thumb" @@ 22 :> "Right Thumb" @@
     23 :> "Left Hip" @@ 24 :> "Right Hip" @@ 25 :> "Left Knee" @@
     26 :> "Right Knee" @@ 27 :> "Left Ankle" @@ 28 :> "Right Ankle" @@
     29 :> "Left Heel" @@ 30 :> "Right Heel" @@ 31 :> "Left Foot Index" @@
     32 :> "Right Foot Index")

StatusInvalid == "Invalid or empty frame received"
StatusOpenCV == "OpenCV processing error"
StatusDetected == "Pose detected successfully"
StatusNoPose == "No pose detected"

(* ------------------------------ frames --------------------------------- *)
\* the extents a dimension takes: empty, a single sample, MaxDim samples
Extents == {0, 1, MaxDim}

Shapes == UNION { [1..n -> Extents] : n \in 0..MaxNdim }

Frames ==
    { [kind |-> "NoneType", shape |-> <<>>],
      [kind |-> "list", shape |-> <<>>] }
    \cup { [kind |-> "ndarray", shape |-> s] : s \in Shapes }

RECURSIVE Product(_)
Product(s) == IF Len(s) = 0 THEN 1 ELSE Head(s) * Product(Tail(s))

\* isinstance(video_frame, np.ndarray)
IsNdarray(f) == f.kind = "ndarray"

\* ndarray.size: the number of elements, the product of the dimensions
Size(f) == Product(f.shape)

\* variant: the emptiness test is left out of the guard
InvalidFrame_noSizeTest(f) == ~IsNdarray(f)

\* the guard of line 134
InvalidFrame(f) == ~IsNdarray(f) \/ Size(f) = 0

\* cv2.cvtColor(video_frame, cv2.COLOR_BGR2RGB): converts an H x W x C image
\* with 3 or 4 channels, raises cv2.error for any other array
cvtColor(f) ==
    IF /\ Len(f.shape) = 3
       /\ f.shape[3] \in {3, 4}
       /\ Size(f) > 0
    THEN "ok" ELSE "cv2.error"

\* variant: a bare except that catches every exception
Catches_all(e) == TRUE

\* variant: the except clause names another exception class
Catches_typeError(e) == e = "TypeError"

\* except cv2.error as e
Catches(e) == e = "cv2.error"

(* ----------------------------- estimator ------------------------------- *)
\* one landmark of the estimator; the four fields carry distinct tokens
Landmark(i, seed) ==
    [x |-> 4 * (i + seed), y |-> 4 * (i + seed) + 1,
     z |-> 4 * (i + seed) + 2, visibility |-> 4 * (i + seed) + 3]

\* results.pose_landmarks.landmark of a detection
LandmarkList(seed) == [i \in 1..NumLandmarks |-> Landmark(i, seed)]

NoEst == [exc |-> "none", detected |-> FALSE, landmark |-> <<>>]

\* what pose.process(rgb_frame) can do on one call
EstimatorOutcomes ==
    { NoEst }
    \cup { [exc |-> "none", detected |-> TRUE, landmark |-> LandmarkList(s)] :
             s \in 0..MaxSeed }
    \cup { [exc |-> e, detected |-> FALSE, landmark |-> <<>>] :
             e \in {"RuntimeError", "ValueError"} }

(* --------------------------- JSON helpers ------------------------------ *)
HasKey(obj, k) == \E i \in 1..Len(obj) : obj[i][1] = k

Get(obj, k) == obj[CHOOSE i \in 1..Len(obj) : obj[i][1] = k][2]

(* ----------------------------- python_main ----------------------------- *)
Return(json, status, inv) ==
    [returned |-> TRUE, json |-> json, status |-> status,
     raised |-> "none", invoked |-> inv]

Raise(e, inv) ==
    [returned |-> FALSE, json |-> <<>>, status |-> "",
     raised |-> e, invoked |-> inv]

\* variant: the x and y fields are read from each other's attribute
LandmarkEntry_swapXY(idx, landmark) ==
    << <<"id", idx>>, <<"name", POSE_LANDMARKS[idx]>>,
       <<"x", landmark.y>>, <<"y", landmark.x>>, <<"z", landmark.z>>,
       <<"visibility", landmark.visibility>> >>

\* the dict appended for one landmark, lines 148-155
LandmarkEntry(idx, landmark) ==
    << <<"id", idx>>, <<"name", POSE_LANDMARKS[idx]>>,
       <<"x", landmark.x>>, <<"y", landmark.y>>, <<"z", landmark.z>>,
       <<"visibility", landmark.visibility>> >>

\* variant: the loop stops one landmark early
BuildLandmarks_dropLast(lms) ==
    [i \in 1..(Len(lms) - 1) |-> << <<"id", i - 1>>,
                                    <<"name", POSE_LANDMARKS[i - 1]>>,
                                    <<"x", lms[i].x>>, <<"y", lms[i].y>>,
                                    <<"z", lms[i].z>>,
                                    <<"visibility", lms[i].visibility>> >>]

\* for idx, landmark in enumerate(...): landmarks.append({...})
BuildLandmarks(lms) == [i \in 1..Len(lms) |-> LandmarkEntry(i - 1, lms[i])]

\* variant: the no-landmarks branch reports the success status
ExtractPose_noElse(est) ==
    IF est.detected
    THEN Return(<< <<"pose", BuildLandmarks(est.landmark)>> >>,
                StatusDetected, TRUE)
    ELSE Return(<< <<"pose", <<>> >> >>, StatusDetected, TRUE)

\* lines 145-158
ExtractPose(est) ==
    IF est.detected
    THEN IF \E i \in 1..Len(est.landmark) : (i - 1) \notin DOMAIN POSE_LANDMARKS
         THEN Raise("KeyError", TRUE)
         ELSE Return(<< <<"pose", BuildLandmarks(est.landmark)>> >>,
                     StatusDetected, TRUE)
    ELSE Return(<< <<"pose", <<>> >> >>, StatusNoPose, TRUE)

\* the try block, lines 138-140: the exception it ends with and whether
\* the estimator was entered
TryBlock(f, h, est) ==
    IF cvtColor(f) # "ok" THEN [exc |-> cvtColor(f), inv |-> FALSE]
    ELSE IF h = None THEN [exc |-> "AttributeError", inv |-> FALSE]
    ELSE [exc |-> est.exc, inv |-> TRUE]

python_main(f, h, est) ==
    IF InvalidFrame(f)
    THEN Return(<< <<"error", "Invalid input: Expected a non-empty NumPy image array">> >>,
                StatusInvalid, FALSE)
    ELSE LET t == TryBlock(f, h, est) IN
         IF t.exc # "none"
         THEN IF Catches(t.exc)
              THEN Return(<< <<"error", "OpenCV error">> >>, StatusOpenCV, t.inv)
              ELSE Raise(t.exc, t.inv)
         ELSE ExtractPose(est)

(* ------------------------- python_finalize ----------------------------- *)
\* variant: the handle is closed but not reset to None
python_finalize_noReset(h, cc) ==
    IF h # None
    THEN [pose |-> h, closeCalls |-> [cc EXCEPT ![h] = @ + 1]]
    ELSE [pose |-> h, closeCalls |-> cc]

\* the handle and the close counters after python_finalize
python_finalize(h, cc) ==
    IF h # None
    THEN [pose |-> None, closeCalls |-> [cc EXCEPT ![h] = @ + 1]]
    ELSE [pose |-> h, closeCalls |-> cc]

\* the estimator acts only on a call that reaches pose.process with a handle
OutcomesFor(f, h) ==
    IF ~InvalidFrame(f) /\ TryBlock(f, h, NoEst).inv
    THEN EstimatorOutcomes ELSE { NoEst }

(* ------------------------------- state --------------------------------- *)
NoFrame == [kind |-> "NoneType", shape |-> <<>>]

InitCommon ==
    /\ pose = None
    /\ nAlloc = 0
    /\ closeCalls = [i \in 1..MaxInstances |-> 0]
    /\ op = "none"
    /\ refinalized = FALSE
    /\ frame = NoFrame
    /\ invoked = FALSE
    /\ lastEst = NoEst
    /\ returned = FALSE
    /\ ret_json = <<>>
    /\ ret_status = ""
    /\ raised = "none"
    /\ nFrames = 0
    /\ initCalled = FALSE
    /\ mainCalled = FALSE
    /\ pending = "none"

Init == InitCommon /\ pc = "hosted" /\ cap = "unused"

\* python_init: pose = mp.solutions.pose.Pose(...); a failing constructor
\* raises before the assignment
DoInit(ok) ==
    /\ refinalized' = FALSE
    /\ op' = "init"
    /\ IF ok
       THEN /\ nAlloc < MaxInstances
            /\ nAlloc' = nAlloc + 1
            /\ pose' = nAlloc + 1
            /\ raised' = "none"
       ELSE /\ UNCHANGED <<nAlloc, pose>>
            /\ raised' = "RuntimeError"
    /\ returned' = FALSE
    /\ ret_json' = <<>>
    /\ ret_status' = ""
    /\ invoked' = FALSE
    /\ lastEst' = NoEst
    /\ frame' = NoFrame
    /\ UNCHANGED closeCalls

DoMain(f, est) ==
    LET r == python_main(f, pose, est) IN
    /\ refinalized' = FALSE
    /\ op' = "main"
    /\ frame' = f
    /\ invoked' = r.invoked
    /\ lastEst' = IF r.invoked THEN est ELSE NoEst
    /\ returned' = r.returned
    /\ ret_json' = r.json
    /\ ret_status' = r.status
    /\ raised' = r.raised
    /\ UNCHANGED <<pose, nAlloc, closeCalls>>

DoFinalize ==
    LET r == python_finalize(pose, closeCalls) IN
    /\ refinalized' = (op = "finalize")
    /\ op' = "finalize"
    /\ pose' = r.pose
    /\ closeCalls' = r.closeCalls
    /\ returned' = FALSE
    /\ ret_json' = <<>>
    /\ ret_status' = ""
    /\ raised' = "none"
    /\ invoked' = FALSE
    /\ lastEst' = NoEst
    /\ frame' = NoFrame
    /\ UNCHANGED nAlloc

(* ------------------------ hosted entry points -------------------------- *)
HostInit == /\ pc = "hosted"
            /\ \E ok \in BOOLEAN : DoInit(ok)
            /\ UNCHANGED hostVars

HostMain == /\ pc = "hosted"
            /\ \E f \in Frames : \E est \in OutcomesFor(f, pose) : DoMain(f, est)
            /\ UNCHANGED hostVars

HostFinalize == /\ pc = "hosted"
                /\ DoFinalize
                /\ UNCHANGED hostVars

Next == HostInit \/ HostMain \/ HostFinalize

Spec == Init /\ [][Next]_vars

(* --------------------------- standalone mode --------------------------- *)
\* what cap.read() can hand back as the frame: nothing, or a colour image
CameraFrames ==
    { NoFrame }
    \cup { [kind |-> "ndarray", shape |-> <<h, w, 3>>] : h, w \in Extents \ {0} }

InitStandalone == InitCommon /\ pc = "start" /\ cap = "unopened"

\* cap = cv2.VideoCapture(0); if not cap.isOpened(): print(...)
OpenCamera ==
    /\ pc = "start"
    /\ \E opened \in BOOLEAN :
         /\ cap' = IF opened THEN "open" ELSE "failed"
         /\ pc' = IF opened THEN "init" ELSE "done"
    /\ UNCHANGED <<pose, nAlloc, closeCalls, op, refinalized, frame, invoked,
                   lastEst, returned, ret_json, ret_status, raised,
                   nFrames, initCalled, mainCalled, pending>>

\* python_init(None) inside the try
RunInit ==
    /\ pc = "init"
    /\ \E ok \in BOOLEAN :
         /\ DoInit(ok)
         /\ pc' = IF ok THEN "read" ELSE "finally"
         /\ pending' = IF ok THEN "none" ELSE "RuntimeError"
    /\ initCalled' = TRUE
    /\ UNCHANGED <<cap, nFrames, mainCalled>>

\* ret, frame = cap.read(); if not ret or frame is None: continue
ReadFrame ==
    /\ pc = "read"
    /\ nFrames < MaxFrames
    /\ nFrames' = nFrames + 1
    /\ \E ret \in BOOLEAN, f \in CameraFrames :
         IF ~ret \/ f.kind = "NoneType"
         THEN /\ pc' = "read"
              /\ frame' = frame
         ELSE /\ pc' = "main"
              /\ frame' = f
    /\ UNCHANGED <<pose, nAlloc, closeCalls, op, refinalized, invoked, lastEst,
                   returned, ret_json, ret_status, raised, cap,
                   initCalled, mainCalled, pending>>

\* output_json, status_message = python_main(frame); print both
RunMain ==
    /\ pc = "main"
    /\ \E est \in OutcomesFor(frame, pose) :
         /\ DoMain(frame, est)
         /\ pc' = IF python_main(frame, pose, est).returned
                  THEN "read" ELSE "finally"
         /\ pending' = python_main(frame, pose, est).raised
    /\ mainCalled' = TRUE
    /\ UNCHANGED <<cap, nFrames, initCalled>>

\* Ctrl+C inside the try: except KeyboardInterrupt: pass
Interrupt ==
    /\ pc \in {"init", "read", "main"}
    /\ pc' = "finally"
    /\ pending' = "none"
    /\ UNCHANGED <<pose, nAlloc, closeCalls, op, refinalized, frame, invoked,
                   lastEst, returned, ret_json, ret_status, raised, cap,
                   nFrames, initCalled, mainCalled>>

\* variant: the finally block releases the camera only
FinallyBlock_releaseOnly ==
    /\ pc = "finally"
    /\ cap' = "released"
    /\ pc' = "done"
    /\ UNCHANGED <<pose, nAlloc, closeCalls, op, refinalized, frame, invoked,
                   lastEst, returned, ret_json, ret_status, raised,
                   nFrames, initCalled, mainCalled, pending>>

\* finally: cap.release(); python_finalize()
FinallyBlock ==
    /\ pc = "finally"
    /\ cap' = "released"
    /\ DoFinalize
    /\ pc' = "done"
    /\ UNCHANGED <<nFrames, initCalled, mainCalled, pending>>

NextStandalone ==
    OpenCamera \/ RunInit \/ ReadFrame \/ RunMain \/ Interrupt \/ FinallyBlock

SpecStandalone == InitStandalone /\ [][NextStandalone]_vars

(* ------------------------------ properties ----------------------------- *)

\* C1 (as amended): a python_main call whose argument is not an ndarray, or is
\* an ndarray of size 0, returns an "error" object with the status "Invalid or
\* empty frame received" without entering the estimator, whatever the handle.
C1_InvalidInputRejected ==
    (op = "main" /\ (frame.kind # "ndarray" \/ Product(frame.shape) = 0))
    => /\ returned
       /\ HasKey(ret_json, "error")
       /\ ret_status = StatusInvalid
       /\ raised = "none"
       /\ ~invoked

C1_Witness ==
    /\ op = "main"
    /\ frame.kind = "ndarray"
    /\ Len(frame.shape) = 3
    /\ Product(frame.shape) = 0
    /\ pose # None
    /\ ret_status = StatusInvalid

\* C1 (as stated): every argument that is not a non-empty 2-D/3-D ndarray is
\* answered with the status "Invalid or empty frame received".
C1_Original ==
    (op = "main" /\ ~(/\ frame.kind = "ndarray"
                      /\ Product(frame.shape) > 0
                      /\ Len(frame.shape) \in {2, 3}))
    => /\ returned
       /\ HasKey(ret_json, "error")
       /\ ret_status = StatusInvalid
       /\ ~invoked

\* C2: when the estimator reports landmarks, python_main returns a "pose" list
\* of 33 entries with ids 0..32 in order, each named POSE_LANDMARKS[id], and
\* the status "Pose detected successfully".
C2_DetectedPoseShape ==
    (op = "main" /\ invoked /\ lastEst.exc = "none" /\ lastEst.detected)
    => /\ returned
       /\ ret_status = StatusDetected
       /\ HasKey(ret_json, "pose")
       /\ Len(Get(ret_json, "pose")) = 33
       /\ \A i \in 1..Len(Get(ret_json, "pose")) :
            /\ Get(Get(ret_json, "pose")[i], "id") = i - 1
            /\ Get(Get(ret_json, "pose")[i], "name") = POSE_LANDMARKS[i - 1]

C2_Witness ==
    /\ op = "main"
    /\ lastEst.detected
    /\ ret_status = StatusDetected
    /\ Get(Get(ret_json, "pose")[33], "name") = "Right Foot Index"

\* C3: when the estimator reports no landmarks, python_main returns exactly
\* {"pose": []} with the status "No pose detected"; an empty pose list never
\* comes with another status or with an "error" key.
C3_NoPoseResult ==
    /\ (op = "main" /\ invoked /\ lastEst.exc = "none" /\ ~lastEst.detected)
       => /\ returned
          /\ ret_json = << <<"pose", <<>> >> >>
          /\ ret_status = StatusNoPose
    /\ (returned /\ HasKey(ret_json, "pose") /\ Len(Get(ret_json, "pose")) = 0)
       => /\ ret_status = StatusNoPose
          /\ ~HasKey(ret_json, "error")

C3_Witness ==
    /\ op = "main"
    /\ invoked
    /\ lastEst.exc = "none"
    /\ ~lastEst.detected
    /\ ret_status = StatusNoPose

\* C4: python_finalize always leaves the handle None without failing, and a
\* python_finalize that directly follows another one closes nothing and
\* changes neither the handle nor any estimator instance.
C4_FinalizeIdempotent ==
    /\ [](op = "finalize" => (pose = None /\ raised = "none"))
    /\ [][(op = "finalize" /\ op' = "finalize")
          => (pose' = pose /\ closeCalls' = closeCalls /\ nAlloc' = nAlloc
              /\ raised' = "none")]_vars

C4_Witness ==
    /\ op = "finalize"
    /\ refinalized
    /\ nAlloc > 0
    /\ closeCalls[1] = 1

\* C5: the x, y, z and visibility of the i-th returned entry are the values of
\* the i-th landmark the estimator reported, and no landmark is dropped.
C5_FieldsCopied ==
    (op = "main" /\ returned /\ invoked /\ lastEst.detected)
    => /\ Len(Get(ret_json, "pose")) = Len(lastEst.landmark)
       /\ \A i \in 1..Len(Get(ret_json, "pose")) :
            /\ Get(Get(ret_json, "pose")[i], "x") = lastEst.landmark[i].x
            /\ Get(Get(ret_json, "pose")[i], "y") = lastEst.landmark[i].y
            /\ Get(Get(ret_json, "pose")[i], "z") = lastEst.landmark[i].z
            /\ Get(Get(ret_json, "pose")[i], "visibility")
                 = lastEst.landmark[i].visibility

C5_Witness ==
    /\ op = "main"
    /\ returned
    /\ lastEst.detected
    /\ lastEst.landmark[1].x = 4 * (1 + MaxSeed)
    /\ Get(Get(ret_json, "pose")[1], "x") = 4 * (1 + MaxSeed)
    /\ Get(Get(ret_json, "pose")[33], "visibility") = 4 * (33 + MaxSeed) + 3

C7_ConversionFailureCaught ==
    /\ []((op = "main" /\ frame.kind = "ndarray" /\ Product(frame.shape) > 0
           /\ cvtColor(frame) # "ok")
          => (/\ returned
              /\ HasKey(ret_json, "error")
              /\ ret_status = StatusOpenCV
              /\ raised = "none"))
    /\ [](ret_status = StatusOpenCV
          => (/\ op = "main"
              /\ frame.kind = "ndarray"
              /\ Product(frame.shape) > 0
              /\ cvtColor(frame) # "ok"
              /\ ~invoked))
    /\ [][ret_status' = StatusOpenCV
          => (pose' = pose /\ closeCalls' = closeCalls /\ nAlloc' = nAlloc)]_vars

C7_Witness ==
    /\ op = "main"
    /\ frame.kind = "ndarray"
    /\ Len(frame.shape) = 1
    /\ Product(frame.shape) > 0
    /\ pose # None
    /\ ret_status = StatusOpenCV

\* C8: in the standalone run, the try block is left only into the finally
\* block, which releases the camera and finalizes; a finished run that opened
\* the camera has it released, the handle None and every estimator closed
\* once; a run whose camera did not open never calls python_init/python_main.
C8_StandaloneCleanup ==
    /\ []((pc = "done" /\ cap # "failed")
          => (/\ cap = "released"
              /\ pose = None
              /\ \A i \in 1..nAlloc : closeCalls[i] = 1))
    /\ [](cap = "failed" => (pc = "done" /\ ~initCalled /\ ~mainCalled))
    /\ [][(pc \in {"init", "read", "main"} /\ pc' \notin {"init", "read", "main"})
          => pc' = "finally"]_vars
    /\ [][pc = "finally" /\ pc' # "finally"
          => (pc' = "done" /\ cap' = "released" /\ pose' = None)]_vars

C8_Witness ==
    /\ pc = "done"
    /\ cap = "released"
    /\ mainCalled
    /\ pending = "RuntimeError"
    /\ pose = None
    /\ nAlloc = 1
    /\ closeCalls[1] = 1

\* C9: POSE_LANDMARKS has exactly the keys 0..32 and no two keys share a name.
C9_TableTotalInjective ==
    /\ DOMAIN POSE_LANDMARKS = 0..32
    /\ \A i, j \in DOMAIN POSE_LANDMARKS :
         POSE_LANDMARKS[i] = POSE_LANDMARKS[j] => i = j
    /\ (returned /\ ret_status = StatusDetected)
       => Cardinality({ Get(Get(ret_json, "pose")[i], "name") :
                          i \in 1..Len(Get(ret_json, "pose")) }) = 33

C9_Witness ==
    /\ op = "main"
    /\ ret_status = StatusDetected
    /\ Cardinality({ Get(Get(ret_json, "pose")[i], "name") :
                       i \in 1..Len(Get(ret_json, "pose")) }) = 33

\* C10: every estimator instance that was allocated and not closed is the one
\* the global handle refers to.
C10_SingleLiveInstance ==
    \A i \in 1..nAlloc : closeCalls[i] = 0 => pose = i

====
